---- MODULE Spec2Model ----
(***************************************************************************)
(* Model of the asynchronous slog drain of src/lib.rs: producers hand      *)
(* records to one worker thread through a bounded crossbeam channel; the   *)
(* worker filters them by PID and level and forwards them to the wrapped   *)
(* drain.  The model covers AsyncCore, Async (overflow accounting),        *)
(* PIDLogControl, AsyncGuard and the drop (shutdown) protocol.             *)
(***************************************************************************)
EXTENDS Integers, Sequences, FiniteSets, TLC

\* ------------------------------------------------------------------ bounds
\* Total number of operations the environment calls: Async::log calls by the
\* producers plus control operations through the PIDLogControl.
MaxOps == 4
\* Largest channel capacity chosen at construction (chan_size in 1..MaxChan).
MaxChan == 2

\* ------------------------------------------------------------- vocabulary
Producers == {"p1", "p2"}
Worker == "worker"
Threads == Producers \cup {Worker}
\* The producer thread that owns the drain and the guard: the last reference
\* is released by it, or by the wrapped drain running in the worker thread.
Owner == "p1"

\* slog::Level as ordered by slog (Critical = 1 is the most severe, Trace = 6
\* the least); `a <= b` on levels is `a` at least as severe as `b`.
Levels == 1..6
\* Level of the dropped-count meta-record (slog::Level::Error).
Error == 2
\* Levels the producers log at, and thresholds the control handle sets.
RecordLevels == {1, 2}
\* PIDs the control handle enables and disables.
Pids == {1}

\* Option<T>: None is the empty set, Some(x) the singleton {x}.
None == {}
Some(x) == {x}

\* The tag of records produced by Async itself (record! at line 827).
MetaTag == "slog-async"

\* Logger-scoped key-value lists (OwnedKVList) of the producers' loggers: p1
\* logs with a numeric pid, p2 with a pid that is not a number.  (The record
\* Drop for Async builds carries the empty list o!().)
logger == [p \in Producers |->
             IF p = "p1" THEN << <<"pid", "1">> >> ELSE << <<"pid", "x">> >>]

OverflowStrategies == {"DropAndReport", "Drop", "Block"}
BuildKinds == {"build", "build_with_channel", "build_with_guard"}

VARIABLES
    strategy,        \* the OverflowStrategy the AsyncBuilder was given
    blocking,        \* AsyncCore.blocking
    inc_dropped,     \* Async.inc_dropped
    chan_size,       \* AsyncCoreBuilder.chan_size: the channel's capacity
    built,           \* which AsyncBuilder::build* constructed the drain
    queue,           \* the bounded channel's buffer, head first
    pc,              \* pc[t]: position of thread t
    cur,             \* cur[t]: the record thread t is logging
    taken,           \* taken[t]: local `dropped` of push_dropped in thread t
    dropped,         \* Async.dropped (AtomicUsize)
    tl_sender,       \* AsyncCore.tl_sender: threads holding a cached Sender
    join,            \* who holds the worker's JoinHandle: "core", "guard", "taken"
    async_st,        \* Async/AsyncCore: "alive", "dropping", "dropped"
    guard_st,        \* AsyncGuard: "none", "held", "dropping", "dropped"
    ctl_st,          \* PIDLogControl: "none", "held", "dropped"
    enabled_pids,    \* worker: enabled_pids
    emit_log_level,  \* worker: emit_log_level (Option<Level>)
    sink,            \* what the wrapped drain has received, in order
    ret,             \* ret[p]: what Async::log last returned to producer p
    core_ret,        \* core_ret[t]: what AsyncCore::send last returned to thread t
    chanHist,        \* history: every message ever placed in the channel, in order
    wlog,            \* history: every message the worker dequeued, with its decision
    seqno,           \* history: seqno[t] numbers the records thread t has built
    nlog,            \* history: number of Async::log calls started
    nctl,            \* history: number of control operations called
    ctl_ret,         \* history: results of the control operations, in call order
    fullReal,        \* history: real records rejected as Full by the core
    fullMeta         \* history: meta-records rejected as Full by the core

vars == << strategy, blocking, inc_dropped, chan_size, built, queue, pc, cur, taken,
           dropped, tl_sender, join, async_st, guard_st, ctl_st, enabled_pids,
           emit_log_level, sink, ret, core_ret, chanHist, wlog, seqno, nlog, nctl,
           ctl_ret, fullReal, fullMeta >>

config == << strategy, blocking, inc_dropped, chan_size, built >>
history == << chanHist, wlog, seqno, nlog, nctl, ctl_ret, fullReal, fullMeta >>

\* ---------------------------------------------------------------- messages
\* AsyncMsg.  Every variant is a record of the same shape; the fields a
\* variant does not carry are left at their empty values.
Msg(kind, src, seq, level, pid, tag, count, lv) ==
    [kind |-> kind, src |-> src, seq |-> seq, level |-> level, pid |-> pid,
     tag |-> tag, count |-> count, logger_values |-> lv]

EnablePID(p) == Msg("EnablePID", "ctl", 0, 0, Some(p), "", 0, <<>>)
DisablePID(p) == Msg("DisablePID", "ctl", 0, 0, Some(p), "", 0, <<>>)
LogLevel(l) == Msg("LogLevel", "ctl", 0, l, None, "", 0, <<>>)
Finish == Msg("Finish", "drop", 0, 0, None, "", 0, <<>>)

ControlMsgs ==
    {EnablePID(p) : p \in Pids} \cup {DisablePID(p) : p \in Pids}
        \cup {LogLevel(l) : l \in RecordLevels}

\* format!("{}", val).parse::<usize>(): Some(n) for a decimal numeral, else None.
Digits == <<"0", "1", "2", "3", "4", "5", "6", "7", "8", "9">>
ParseUsize(s) ==
    IF \E i \in 1..Len(Digits) : Digits[i] = s
    THEN Some((CHOOSE i \in 1..Len(Digits) : Digits[i] = s) - 1)
    ELSE None

\* PidSerializer::emit_arguments over a key-value list: the last "pid" key
\* whose value parses as usize wins.
RECURSIVE PidSerializer(_, _)
PidSerializer(kvs, acc) ==
    IF kvs = <<>> THEN acc
    ELSE LET kv == Head(kvs)
             next == IF kv[1] = "pid" /\ ParseUsize(kv[2]) # None
                     THEN ParseUsize(kv[2]) ELSE acc
         IN PidSerializer(Tail(kvs), next)

\* AsyncRecord::from(record, logger_values): the owned copy of a record.  The
\* record is [level, tag, count]; src and seq stand for its message text.
AsyncRecordFrom(src, seq, record, logger_values) ==
    Msg("Record", src, seq, record.level, PidSerializer(logger_values, None),
        record.tag, record.count, logger_values)

\* AsyncRecord::log_to(drain): what the wrapped drain is handed.
LogTo(r) ==
    [src |-> r.src, seq |-> r.seq, level |-> r.level, tag |-> r.tag,
     count |-> r.count, logger_values |-> r.logger_values]

\* A mutant of MetaRecord: the count reported is one too many.
MetaRecordOneMore(n) == [level |-> Error, tag |-> MetaTag, count |-> n + 1]
\* The record! built by push_dropped: Level::Error, tag "slog-async", count.
MetaRecord(n) == [level |-> Error, tag |-> MetaTag, count |-> n]
\* A record a producer logs.
UserRecord(l) == [level |-> l, tag |-> "", count |-> 0]

\* ----------------------------------------------------------------- channel
\* The receiver lives in the worker's closure: it is dropped when the worker
\* thread returns or panics.
RxAlive == pc[Worker] \notin {"exited", "panicked"}

\* A mutant of SendersAlive: only the core's senders keep the channel open.
SendersAliveCoreOnly == async_st # "dropped"
\* Sender endpoints: ref_sender and the cached tl_sender clones (owned by the
\* AsyncCore), AsyncGuard.tx, and the PIDLogControl's clone.
SendersAlive ==
    \/ async_st # "dropped"
    \/ guard_st \in {"held", "dropping"}
    \/ ctl_st = "held"

\* A mutant of Enqueue: the message is written at the head of the buffer.
EnqueueFront(q, m) == <<m>> \o q
\* The channel's write of a message: at the tail of the buffer.
Enqueue(q, m) == Append(q, m)

\* A mutant of TrySend: a message is accepted though the receiver is gone.
TrySendNoReceiver(q, m) ==
    IF Len(q) >= chan_size THEN [res |-> "Full", q |-> q]
    ELSE [res |-> "Ok", q |-> Enqueue(q, m)]
\* crossbeam_channel::Sender::try_send on the bounded channel.
TrySend(q, m) ==
    IF ~RxAlive THEN [res |-> "Disconnected", q |-> q]
    ELSE IF Len(q) >= chan_size THEN [res |-> "Full", q |-> q]
    ELSE [res |-> "Ok", q |-> Enqueue(q, m)]

\* crossbeam_channel::Sender::send: it waits while the channel is full and the
\* receiver is alive (CanSend is false), and fails once the receiver is gone.
\* A mutant of CanSend: a closed channel does not release a waiting sender.
CanSendWhileAlive(q) == RxAlive /\ Len(q) < chan_size
CanSend(q) == ~RxAlive \/ Len(q) < chan_size
BlockingSend(q, m) ==
    IF ~RxAlive THEN [res |-> "Disconnected", q |-> q]
    ELSE [res |-> "Ok", q |-> Enqueue(q, m)]

\* A mutant of Recv: the newest message is taken instead of the oldest.
RecvNewest(q) == [msg |-> q[Len(q)], q |-> SubSeq(q, 1, Len(q) - 1)]
\* crossbeam_channel::Receiver::recv on a non-empty channel.
Recv(q) == [msg |-> Head(q), q |-> Tail(q)]

\* impl From<TrySendError<T>> for AsyncError: every TrySendError is Full.
FromTrySendError(e) == "Full"
\* impl From<SendError<T>> for AsyncError.
FromSendError(e) == "Fatal"

\* AsyncCore::send: the result and the channel after it.
AsyncCoreSend(q, m) ==
    IF blocking
    THEN LET s == BlockingSend(q, m)
         IN [res |-> IF s.res = "Ok" THEN "Ok" ELSE FromSendError(s.res), q |-> s.q]
    ELSE LET s == TrySend(q, m)
         IN [res |-> IF s.res = "Ok" THEN "Ok" ELSE FromTrySendError(s.res), q |-> s.q]

\* Whether AsyncCore::send can complete now (a blocking send may have to wait).
CoreSendReady(q) == blocking => CanSend(q)

\* A mutant of overflow_strategy: Block counts drops and does not block.
overflow_strategy_block_counts(s) ==
    CASE s = "Block" -> <<FALSE, TRUE>>
      [] s = "Drop" -> <<FALSE, FALSE>>
      [] s = "DropAndReport" -> <<FALSE, TRUE>>
\* A mutant of overflow_strategy: Drop and DropAndReport are exchanged.
overflow_strategy_exchanged(s) ==
    CASE s = "Block" -> <<TRUE, FALSE>>
      [] s = "Drop" -> <<FALSE, TRUE>>
      [] s = "DropAndReport" -> <<FALSE, FALSE>>
\* AsyncBuilder::overflow_strategy: (blocking, inc_dropped) of a strategy.
overflow_strategy(s) ==
    CASE s = "Block" -> <<TRUE, FALSE>>
      [] s = "Drop" -> <<FALSE, FALSE>>
      [] s = "DropAndReport" -> <<FALSE, TRUE>>

\* ------------------------------------------------------------------ worker
\* The PID check of the worker's Record arm.
PidPasses(r, pids) == r.pid = None \/ r.pid \subseteq pids
\* A mutant of LevelPasses: with no threshold set every level passes.
LevelPassesUnset(r, lvl) == \A l \in lvl : r.level <= l
\* A mutant of LevelPasses: the comparison is strict.
LevelPassesStrict(r, lvl) == lvl # None /\ \A l \in lvl : r.level < l
\* The level check of the worker's Record arm: `r.level <= level` under Some.
LevelPasses(r, lvl) == lvl # None /\ \A l \in lvl : r.level <= l
\* Whether the worker hands record r to the drain.
Delivers(r, pids, lvl) == PidPasses(r, pids) /\ LevelPasses(r, lvl)

\* The arms of the worker's match that change its state.
\* A mutant of InsertPid: the EnablePID message is dequeued and ignored.
InsertPidIgnored(pids, m) == pids
InsertPid(pids, m) == pids \cup m.pid
\* A mutant of RemovePid: the PID stays enabled.
RemovePidKept(pids, m) == pids
RemovePid(pids, m) == pids \ m.pid
SetLevel(lvl, m) == Some(m.level)

\* ------------------------------------------------------------------- Init
Idle(t) == IF t = Worker THEN "in_sink" ELSE "idle"
NoRecord == UserRecord(0)

Init ==
    /\ strategy \in OverflowStrategies
    /\ blocking = overflow_strategy(strategy)[1]
    /\ inc_dropped = overflow_strategy(strategy)[2]
    /\ chan_size \in 1..MaxChan
    /\ built \in BuildKinds
    /\ queue = <<>>
    /\ pc = [t \in Threads |-> IF t = Worker THEN "recv" ELSE "idle"]
    /\ cur = [t \in Threads |-> NoRecord]
    /\ taken = [t \in Threads |-> 0]
    /\ dropped = 0
    /\ tl_sender = {}
    /\ join = IF built = "build_with_guard" THEN "guard" ELSE "core"
    /\ async_st = "alive"
    /\ guard_st = IF built = "build_with_guard" THEN "held" ELSE "none"
    /\ ctl_st = IF built = "build_with_channel" THEN "held" ELSE "none"
    /\ enabled_pids = {}
    /\ emit_log_level = None
    /\ sink = <<>>
    /\ ret = [p \in Producers |-> "None"]
    /\ core_ret = [t \in Threads |-> "None"]
    /\ chanHist = <<>>
    /\ wlog = <<>>
    /\ seqno = [t \in Threads |-> 0]
    /\ nlog = 0
    /\ nctl = 0
    /\ ctl_ret = <<>>
    /\ fullReal = 0
    /\ fullMeta = 0

\* ------------------------------------------------------- Async::log (producer)
LogPcs == {"push_send", "push_restore", "send", "inc"}

\* The effect of self.core.log(record, logger_values) by thread t on the
\* channel, the sender cache and the histories; `m` is the AsyncRecord sent.
CoreLog(t, m) ==
    /\ CoreSendReady(queue)
    /\ queue' = AsyncCoreSend(queue, m).q
    /\ core_ret' = [core_ret EXCEPT ![t] = AsyncCoreSend(queue, m).res]
    /\ chanHist' = IF AsyncCoreSend(queue, m).res = "Ok"
                   THEN Append(chanHist, m) ELSE chanHist
    /\ tl_sender' = tl_sender \cup {t}
    /\ seqno' = [seqno EXCEPT ![t] = @ + 1]

\* A mutant of LogReturn: the core's error is passed on as it is.
LogReturnPassed(res) == res
\* What Async::log returns: its two `Err(e) => return Err(e)` arms pass every
\* error but Full on; every other path ends in Ok(()).
LogReturn(res) == IF res = "Fatal" THEN "Fatal" ELSE "Ok"

\* Async::log is entered and push_dropped swaps the counter with 0.
Log(p, l) ==
    /\ pc[p] = "idle" /\ async_st = "alive" /\ nlog + nctl < MaxOps
    /\ nlog' = nlog + 1
    /\ cur' = [cur EXCEPT ![p] = UserRecord(l)]
    /\ taken' = [taken EXCEPT ![p] = dropped]
    /\ dropped' = 0
    /\ pc' = [pc EXCEPT ![p] = IF dropped > 0 THEN "push_send" ELSE "send"]
    /\ UNCHANGED << config, queue, tl_sender, join, async_st, guard_st, ctl_st,
                    enabled_pids, emit_log_level, sink, ret, core_ret, chanHist,
                    wlog, seqno, nctl, ctl_ret, fullReal, fullMeta >>

\* push_dropped sends the meta-record through the core.
PushSend(p) ==
    /\ pc[p] = "push_send"
    /\ LET m == AsyncRecordFrom(p, seqno[p] + 1, MetaRecord(taken[p]), logger[p])
           res == AsyncCoreSend(queue, m).res
       IN /\ CoreLog(p, m)
          /\ fullMeta' = IF res = "Full" THEN fullMeta + 1 ELSE fullMeta
          /\ pc' = [pc EXCEPT ![p] = CASE res = "Ok" -> "send"
                                       [] res = "Full" -> "push_restore"
                                       [] OTHER -> "idle"]
          /\ ret' = IF res \in {"Ok", "Full"} THEN ret
                    ELSE [ret EXCEPT ![p] = LogReturn(res)]
          /\ cur' = IF res \in {"Ok", "Full"} THEN cur
                    ELSE [cur EXCEPT ![p] = NoRecord]
          /\ taken' = IF res = "Full" THEN taken ELSE [taken EXCEPT ![p] = 0]
    /\ UNCHANGED << config, dropped, join, async_st, guard_st, ctl_st, enabled_pids,
                    emit_log_level, sink, wlog, nlog, nctl, ctl_ret, fullReal >>

\* A mutant of RestoreCount: the count that was taken is not put back.
RestoreCountLost(cnt, n) == cnt + 1
\* self.dropped.fetch_add(dropped + 1): the counter after the count n that was
\* taken is put back, plus one for the meta-record.
RestoreCount(cnt, n) == cnt + n + 1

\* push_dropped, Err(AsyncError::Full): the count is put back, plus one.
PushRestore(p) ==
    /\ pc[p] = "push_restore"
    /\ dropped' = RestoreCount(dropped, taken[p])
    /\ taken' = [taken EXCEPT ![p] = 0]
    /\ pc' = [pc EXCEPT ![p] = "send"]
    /\ UNCHANGED << config, queue, cur, tl_sender, join, async_st, guard_st, ctl_st,
                    enabled_pids, emit_log_level, sink, ret, core_ret, history >>

\* Async::log sends the record itself through the core.
SendRecord(p) ==
    /\ pc[p] = "send"
    /\ LET m == AsyncRecordFrom(p, seqno[p] + 1, cur[p], logger[p])
           res == AsyncCoreSend(queue, m).res
       IN /\ CoreLog(p, m)
          /\ fullReal' = IF res = "Full" THEN fullReal + 1 ELSE fullReal
          /\ IF res = "Full" /\ inc_dropped
             THEN /\ pc' = [pc EXCEPT ![p] = "inc"]
                  /\ UNCHANGED << ret, cur >>
             ELSE /\ pc' = [pc EXCEPT ![p] = "idle"]
                  /\ ret' = [ret EXCEPT ![p] = LogReturn(res)]
                  /\ cur' = [cur EXCEPT ![p] = NoRecord]
    /\ UNCHANGED << config, taken, dropped, join, async_st, guard_st, ctl_st,
                    enabled_pids, emit_log_level, sink, wlog, nlog, nctl, ctl_ret,
                    fullMeta >>

\* Async::log, Err(AsyncError::Full) if self.inc_dropped: count the record.
IncDropped(p) ==
    /\ pc[p] = "inc"
    /\ dropped' = dropped + 1
    /\ pc' = [pc EXCEPT ![p] = "idle"]
    /\ ret' = [ret EXCEPT ![p] = LogReturn("Full")]
    /\ cur' = [cur EXCEPT ![p] = NoRecord]
    /\ UNCHANGED << config, queue, taken, tl_sender, join, async_st, guard_st,
                    ctl_st, enabled_pids, emit_log_level, sink, core_ret, history >>

\* ------------------------------------------------------------ Drop for Async
\* A thread can drop an object when it is not inside a call: the owner while
\* it is idle, or the worker while it runs the wrapped drain, whose code may
\* release the last reference it was handed.
CanDrop(t) == t \in {Owner, Worker} /\ pc[t] = Idle(t)
\* The AsyncGuard is returned to the caller of build_with_guard, apart from the
\* drain: any producer thread may hold it, and drops it when not inside a call,
\* so the guard's drop can run while another thread logs or drops the Async.
CanDropGuard(t) == t \in Producers /\ pc[t] = Idle(t)

\* AsyncCore::drop, `if let Some(join) = self.join.lock()?.take()`: with the
\* handle the core goes on to send Finish; without it drop returns and the
\* core's senders are released.
\* A mutant of CoreDropPc: the core sends Finish whether it holds the handle
\* or not.
CoreDropPcAlways(t) == "drop_finish"
CoreDropPc(t) == IF join = "core" THEN "drop_finish" ELSE Idle(t)
CoreDropJoin == IF join = "core" THEN "taken" ELSE join
CoreDropSt == IF join = "core" THEN "dropping" ELSE "dropped"

\* The last reference to the Async is dropped by thread t: Drop for Async
\* calls push_dropped, which swaps the counter with 0.
DropAsync(t) ==
    /\ async_st = "alive" /\ CanDrop(t)
    /\ \A p \in Producers : pc[p] \notin LogPcs
    /\ taken' = [taken EXCEPT ![t] = dropped]
    /\ dropped' = 0
    /\ IF dropped > 0
       THEN /\ pc' = [pc EXCEPT ![t] = "drop_push_send"]
            /\ async_st' = "dropping"
            /\ UNCHANGED join
       ELSE /\ pc' = [pc EXCEPT ![t] = CoreDropPc(t)]
            /\ async_st' = CoreDropSt
            /\ join' = CoreDropJoin
    /\ UNCHANGED << config, queue, cur, tl_sender, guard_st, ctl_st, enabled_pids,
                    emit_log_level, sink, ret, core_ret, history >>

\* push_dropped of Drop for Async sends the meta-record; `let _ =` ignores
\* what it returns, and AsyncCore::drop follows unless the count is put back.
DropPushSend(t) ==
    /\ pc[t] = "drop_push_send"
    /\ LET m == AsyncRecordFrom(t, seqno[t] + 1, MetaRecord(taken[t]), <<>>)
           res == AsyncCoreSend(queue, m).res
       IN /\ CoreLog(t, m)
          /\ fullMeta' = IF res = "Full" THEN fullMeta + 1 ELSE fullMeta
          /\ IF res = "Full"
             THEN /\ pc' = [pc EXCEPT ![t] = "drop_restore"]
                  /\ UNCHANGED << taken, async_st, join >>
             ELSE /\ pc' = [pc EXCEPT ![t] = CoreDropPc(t)]
                  /\ taken' = [taken EXCEPT ![t] = 0]
                  /\ async_st' = CoreDropSt
                  /\ join' = CoreDropJoin
    /\ UNCHANGED << config, cur, dropped, guard_st, ctl_st, enabled_pids,
                    emit_log_level, sink, ret, wlog, nlog, nctl, ctl_ret, fullReal >>

DropRestore(t) ==
    /\ pc[t] = "drop_restore"
    /\ dropped' = RestoreCount(dropped, taken[t])
    /\ taken' = [taken EXCEPT ![t] = 0]
    /\ pc' = [pc EXCEPT ![t] = CoreDropPc(t)]
    /\ async_st' = CoreDropSt
    /\ join' = CoreDropJoin
    /\ UNCHANGED << config, queue, cur, tl_sender, guard_st, ctl_st, enabled_pids,
                    emit_log_level, sink, ret, core_ret, history >>

\* AsyncCore::drop: `self.get_sender()?.send(AsyncMsg::Finish)`, a blocking
\* send whose result is ignored; the worker thread does not join itself.
DropFinish(t) ==
    /\ pc[t] = "drop_finish"
    /\ CanSend(queue)
    /\ queue' = BlockingSend(queue, Finish).q
    /\ chanHist' = IF BlockingSend(queue, Finish).res = "Ok"
                   THEN Append(chanHist, Finish) ELSE chanHist
    /\ tl_sender' = tl_sender \cup {t}
    /\ IF t # Worker
       THEN /\ pc' = [pc EXCEPT ![t] = "drop_join"]
            /\ UNCHANGED async_st
       ELSE /\ pc' = [pc EXCEPT ![t] = Idle(t)]
            /\ async_st' = "dropped"
    /\ UNCHANGED << config, cur, taken, dropped, join, guard_st, ctl_st,
                    enabled_pids, emit_log_level, sink, ret, core_ret, wlog, seqno,
                    nlog, nctl, ctl_ret, fullReal, fullMeta >>

\* A mutant of JoinReturns: join() does not wait for the thread.
JoinReturnsAtOnce == TRUE
\* JoinHandle::join returns once the worker thread has ended.
JoinReturns == pc[Worker] \in {"exited", "panicked"}

\* AsyncCore::drop: join.join() returns once the worker thread has ended.
DropJoin(t) ==
    /\ pc[t] = "drop_join"
    /\ JoinReturns
    /\ pc' = [pc EXCEPT ![t] = Idle(t)]
    /\ async_st' = "dropped"
    /\ UNCHANGED << config, queue, cur, taken, dropped, tl_sender, join, guard_st,
                    ctl_st, enabled_pids, emit_log_level, sink, ret, core_ret,
                    history >>

\* --------------------------------------------------------- Drop for AsyncGuard
DropGuard(t) ==
    /\ guard_st = "held" /\ CanDropGuard(t)
    /\ guard_st' = "dropping"
    /\ pc' = [pc EXCEPT ![t] = "gdrop_finish"]
    /\ UNCHANGED << config, queue, cur, taken, dropped, tl_sender, join, async_st,
                    ctl_st, enabled_pids, emit_log_level, sink, ret, core_ret,
                    history >>

\* `let _ = self.tx.send(AsyncMsg::Finish); let join = self.join.take()`.
GuardFinish(t) ==
    /\ pc[t] = "gdrop_finish"
    /\ CanSend(queue)
    /\ queue' = BlockingSend(queue, Finish).q
    /\ chanHist' = IF BlockingSend(queue, Finish).res = "Ok"
                   THEN Append(chanHist, Finish) ELSE chanHist
    /\ join' = "taken"
    /\ IF t # Worker
       THEN /\ pc' = [pc EXCEPT ![t] = "gdrop_join"]
            /\ UNCHANGED guard_st
       ELSE /\ pc' = [pc EXCEPT ![t] = Idle(t)]
            /\ guard_st' = "dropped"
    /\ UNCHANGED << config, cur, taken, dropped, tl_sender, async_st, ctl_st,
                    enabled_pids, emit_log_level, sink, ret, core_ret, wlog, seqno,
                    nlog, nctl, ctl_ret, fullReal, fullMeta >>

GuardJoin(t) ==
    /\ pc[t] = "gdrop_join"
    /\ JoinReturns
    /\ pc' = [pc EXCEPT ![t] = Idle(t)]
    /\ guard_st' = "dropped"
    /\ UNCHANGED << config, queue, cur, taken, dropped, tl_sender, join, async_st,
                    ctl_st, enabled_pids, emit_log_level, sink, ret, core_ret,
                    history >>

\* --------------------------------------------------------------- PIDLogControl
\* enable, disable, log_level: one blocking send of the control message.
Control(m) ==
    /\ ctl_st = "held" /\ nlog + nctl < MaxOps
    /\ CanSend(queue)
    /\ queue' = BlockingSend(queue, m).q
    /\ chanHist' = IF BlockingSend(queue, m).res = "Ok"
                   THEN Append(chanHist, m) ELSE chanHist
    /\ ctl_ret' = Append(ctl_ret, IF BlockingSend(queue, m).res = "Ok"
                                  THEN "Ok" ELSE "Err")
    /\ nctl' = nctl + 1
    /\ UNCHANGED << config, pc, cur, taken, dropped, tl_sender, join, async_st,
                    guard_st, ctl_st, enabled_pids, emit_log_level, sink, ret,
                    core_ret, wlog, seqno, nlog, fullReal, fullMeta >>

\* The PIDLogControl is dropped, and its sender with it.
DropControl ==
    /\ ctl_st = "held"
    /\ ctl_st' = "dropped"
    /\ UNCHANGED << config, queue, pc, cur, taken, dropped, tl_sender, join,
                    async_st, guard_st, enabled_pids, emit_log_level, sink, ret,
                    core_ret, history >>

\* ---------------------------------------------------------------- worker loop
\* One turn of the loop: rx.recv().unwrap() and the match on the message.
\* recv fails, and unwrap panics, on an empty channel with no sender left.
WorkerLoop ==
    /\ pc[Worker] = "recv"
    /\ queue # <<>> \/ ~SendersAlive
    /\ IF queue = <<>>
       THEN /\ pc' = [pc EXCEPT ![Worker] = "panicked"]
            /\ UNCHANGED << queue, enabled_pids, emit_log_level, sink, wlog >>
       ELSE LET m == Recv(queue).msg
                deliver == m.kind = "Record"
                              /\ Delivers(m, enabled_pids, emit_log_level)
            IN /\ queue' = Recv(queue).q
               /\ wlog' = Append(wlog, [msg |-> m, delivered |-> deliver])
               /\ sink' = IF deliver THEN Append(sink, LogTo(m)) ELSE sink
               /\ enabled_pids' = CASE m.kind = "EnablePID" -> InsertPid(enabled_pids, m)
                                    [] m.kind = "DisablePID" -> RemovePid(enabled_pids, m)
                                    [] OTHER -> enabled_pids
               /\ emit_log_level' = IF m.kind = "LogLevel"
                                    THEN SetLevel(emit_log_level, m)
                                    ELSE emit_log_level
               /\ pc' = [pc EXCEPT ![Worker] =
                            CASE m.kind = "Finish" -> "exited"
                              [] deliver -> "in_sink"
                              [] OTHER -> "recv"]
    /\ UNCHANGED << config, cur, taken, dropped, tl_sender, join, async_st,
                    guard_st, ctl_st, ret, core_ret, chanHist, seqno, nlog, nctl,
                    ctl_ret, fullReal, fullMeta >>

\* The wrapped drain's log returns and the loop goes on.
SinkReturn ==
    /\ pc[Worker] = "in_sink"
    /\ pc' = [pc EXCEPT ![Worker] = "recv"]
    /\ UNCHANGED << config, queue, cur, taken, dropped, tl_sender, join, async_st,
                    guard_st, ctl_st, enabled_pids, emit_log_level, sink, ret,
                    core_ret, history >>

\* ------------------------------------------------------------- specification
Next ==
    \/ \E p \in Producers, l \in RecordLevels : Log(p, l)
    \/ \E p \in Producers : PushSend(p)
    \/ \E p \in Producers : PushRestore(p)
    \/ \E p \in Producers : SendRecord(p)
    \/ \E p \in Producers : IncDropped(p)
    \/ \E t \in Threads : DropAsync(t)
    \/ \E t \in Threads : DropPushSend(t)
    \/ \E t \in Threads : DropRestore(t)
    \/ \E t \in Threads : DropFinish(t)
    \/ \E t \in Threads : DropJoin(t)
    \/ \E t \in Threads : DropGuard(t)
    \/ \E t \in Threads : GuardFinish(t)
    \/ \E t \in Threads : GuardJoin(t)
    \/ \E m \in ControlMsgs : Control(m)
    \/ DropControl
    \/ WorkerLoop
    \/ SinkReturn

Spec == Init /\ [][Next]_vars

\* Scheduling: a thread that is inside a call keeps running (its next step is
\* taken once it stays possible), the worker thread keeps running and the
\* wrapped drain returns.  Calls the environment may or may not make (log,
\* the control operations, the drops) carry no fairness.
Fairness ==
    /\ WF_vars(WorkerLoop)
    /\ WF_vars(SinkReturn)
    /\ \A t \in Threads :
          /\ WF_vars(PushSend(t)) /\ WF_vars(PushRestore(t))
          /\ WF_vars(SendRecord(t)) /\ WF_vars(IncDropped(t))
          /\ WF_vars(DropPushSend(t)) /\ WF_vars(DropRestore(t))
          /\ WF_vars(DropFinish(t)) /\ WF_vars(DropJoin(t))
          /\ WF_vars(GuardFinish(t)) /\ WF_vars(GuardJoin(t))

FairSpec == Spec /\ Fairness

\* ===================================================================== claims
\* What the claims speak of, stated over the histories and independently of
\* the worker's own bookkeeping.

\* enable(p) occurs in h and no disable(p) occurs after it.
PidEnabledBy(h, p) ==
    \E i \in DOMAIN h :
        /\ h[i] = EnablePID(p)
        /\ \A j \in (i + 1)..Len(h) : h[j] # DisablePID(p)

\* The threshold in force after h: the level of its last LogLevel message.
LevelSetBy(h) ==
    { h[i].level : i \in { k \in DOMAIN h :
                             /\ h[k].kind = "LogLevel"
                             /\ \A j \in (k + 1)..Len(h) : h[j].kind # "LogLevel" } }

\* Whether record r passes the PID filter the control messages of h set up.
PidOk(r, h) == \A p \in r.pid : PidEnabledBy(h, p)
\* Whether record r is at least as severe as the threshold h set up.
LevelOk(r, h) == \E l \in LevelSetBy(h) : r.level <= l

\* The messages the worker dequeued, in order, and those before the i-th.
Dequeued == [i \in DOMAIN wlog |-> wlog[i].msg]
DequeuedBefore(i) == SubSeq(Dequeued, 1, i - 1)
\* The messages placed in the channel before the k-th.
EnqueuedBefore(k) == SubSeq(chanHist, 1, k - 1)

IsRecord(m) == m.kind = "Record"
IsControl(m) == m.kind \in {"EnablePID", "DisablePID", "LogLevel"}

\* C1: the records of one thread reach the drain in the order the thread sent
\* them and at most once each, and the worker dequeues the channel's messages
\* in the order they were enqueued, each once.
C1_FifoPerProducer ==
    /\ \A i, j \in DOMAIN sink :
          (i < j /\ sink[i].src = sink[j].src) => sink[i].seq < sink[j].seq
    /\ Len(wlog) <= Len(chanHist)
    /\ \A i \in DOMAIN wlog : wlog[i].msg = chanHist[i]

\* C1 witness: two records of the same thread have reached the drain.
C1_Witness ==
    \E i, j \in DOMAIN sink : i < j /\ sink[i].src = sink[j].src

\* C2: the worker's deliver-or-discard decision for a record is the one the
\* control messages enqueued before the record determine; a control message
\* enqueued after it has no part in it.
C2_ControlNotRetroactive ==
    \A i \in DOMAIN wlog :
        IsRecord(wlog[i].msg) =>
            \E k \in DOMAIN chanHist :
                /\ chanHist[k] = wlog[i].msg
                /\ wlog[i].delivered <=>
                      (PidOk(wlog[i].msg, EnqueuedBefore(k))
                          /\ LevelOk(wlog[i].msg, EnqueuedBefore(k)))

\* C2 witness: a record was discarded, and a control message enqueued and
\* processed after it set up filters under which it would have been delivered.
C2_Witness ==
    \E i, j \in DOMAIN wlog :
        /\ i < j
        /\ IsRecord(wlog[i].msg) /\ ~wlog[i].delivered
        /\ IsControl(wlog[j].msg)
        /\ PidOk(wlog[i].msg, DequeuedBefore(j + 1))
        /\ LevelOk(wlog[i].msg, DequeuedBefore(j + 1))

\* The place of the first Finish in the channel's history (0 when none).
FirstFinish ==
    IF \E k \in DOMAIN chanHist : chanHist[k] = Finish
    THEN CHOOSE k \in DOMAIN chanHist :
            chanHist[k] = Finish /\ \A j \in 1..(k - 1) : chanHist[j] # Finish
    ELSE 0

\* C3: when the worker has exited, every message enqueued before the Finish
\* has been dequeued and processed in order (a record that passes the filters
\* is in the drain, control messages are applied), and none is left queued.
C3_ShutdownDrains ==
    pc[Worker] = "exited" =>
        /\ FirstFinish > 0
        /\ Len(wlog) = FirstFinish
        /\ \A k \in 1..FirstFinish : wlog[k].msg = chanHist[k]
        /\ \A k \in 1..(FirstFinish - 1) :
              /\ \A n \in DOMAIN queue : queue[n] # chanHist[k] \/ IsControl(chanHist[k])
              /\ (IsRecord(chanHist[k]) /\ PidOk(chanHist[k], EnqueuedBefore(k))
                     /\ LevelOk(chanHist[k], EnqueuedBefore(k)))
                   => \E n \in DOMAIN sink : sink[n] = LogTo(chanHist[k])
        /\ Len(queue) = Len(chanHist) - FirstFinish

\* C3 witness: the worker has exited after a record enqueued before the Finish
\* reached the drain and another was filtered out.
C3_Witness ==
    /\ pc[Worker] = "exited"
    /\ \E i, j \in 1..(FirstFinish - 1) :
          /\ IsRecord(chanHist[i]) /\ wlog[i].delivered
          /\ IsRecord(chanHist[j]) /\ ~wlog[j].delivered

\* A thread is inside the blocking send of Finish of a drop.
InFinishSend(t) == pc[t] \in {"drop_finish", "gdrop_finish"}
WorkerEnded == pc[Worker] \in {"exited", "panicked"}

\* C4: shutdown never deadlocks: a thread that has begun the shutdown of a
\* drop (the send of Finish) eventually returns from the drop, and the worker
\* thread eventually ends, whichever thread drops and whatever the queue holds.
C4_ShutdownNeverDeadlocks ==
    /\ \A t \in Threads : InFinishSend(t) ~> (pc[t] = Idle(t))
    /\ (\E t \in Threads : InFinishSend(t)) ~> WorkerEnded

\* The records in the channel's history, and whether one is a meta-record.
IsMeta(m) == IsRecord(m) /\ m.tag = MetaTag
NRecords == Cardinality({k \in DOMAIN chanHist : IsRecord(chanHist[k])})

\* What the worker's filters, as set up by the messages it dequeued before the
\* i-th, make of the i-th message.
PassesAt(i) ==
    /\ PidOk(wlog[i].msg, DequeuedBefore(i))
    /\ LevelOk(wlog[i].msg, DequeuedBefore(i))

\* A record is in the channel's history at place k, ahead of any Finish, and
\* the control messages enqueued before it set up filters that admit it.
AdmittedAt(k) ==
    /\ IsRecord(chanHist[k])
    /\ PidOk(chanHist[k], EnqueuedBefore(k))
    /\ LevelOk(chanHist[k], EnqueuedBefore(k))
    /\ \A j \in 1..(k - 1) : chanHist[j] # Finish

\* Under Block, with more records sent than the capacity, a record the filters
\* admit is still waiting in the channel.
BlockPending ==
    /\ blocking /\ NRecords > chan_size
    /\ \E k \in DOMAIN chanHist : AdmittedAt(k) /\ k > Len(wlog)

\* C5: no loss under Block: with more records sent than the capacity, every
\* record (that the filters in force admit, sent ahead of any shutdown)
\* eventually leaves the channel for the drain.
C5_BlockNoLoss == BlockPending ~> ~BlockPending

\* C5, the part that holds: under Block no send is rejected as Full and
\* nothing is counted as dropped; a send fails only with Fatal, and only once
\* the worker has ended; and a record the worker dequeues reaches the drain
\* exactly when it passes the PID and level filters then in force.
C5_BlockNoProducerLoss ==
    blocking =>
        /\ fullReal = 0 /\ fullMeta = 0 /\ dropped = 0
        /\ \A t \in Threads : core_ret[t] # "Full"
        /\ \A t \in Threads : core_ret[t] = "Fatal" => WorkerEnded
        /\ \A p \in Producers : ret[p] = "Fatal" => WorkerEnded
        /\ \A i \in DOMAIN wlog :
              IsRecord(wlog[i].msg) => (wlog[i].delivered <=> PassesAt(i))

\* C5, a case of the part that holds: blocking mode, more records enqueued than the capacity, one of
\* them handed to the drain and one filtered out by the worker.
C5_Witness ==
    /\ blocking /\ NRecords > chan_size
    /\ \E i, j \in DOMAIN wlog :
          /\ IsRecord(wlog[i].msg) /\ wlog[i].delivered
          /\ IsRecord(wlog[j].msg) /\ ~wlog[j].delivered

\* The sum of the counts carried by the meta-records of a sequence of messages.
RECURSIVE MetaSum(_)
MetaSum(h) ==
    IF h = <<>> THEN 0
    ELSE (IF IsMeta(Head(h)) THEN Head(h).count ELSE 0) + MetaSum(Tail(h))

\* The sum of the counts carried by the meta-records the drain received.
RECURSIVE SinkMetaSum(_)
SinkMetaSum(h) ==
    IF h = <<>> THEN 0
    ELSE (IF Head(h).tag = MetaTag THEN Head(h).count ELSE 0) + SinkMetaSum(Tail(h))

\* The counts threads hold between the swap of push_dropped and the send of
\* the meta-record or the restore.
RECURSIVE SumTaken(_)
SumTaken(ts) ==
    IF ts = {} THEN 0
    ELSE LET t == CHOOSE x \in ts : TRUE IN taken[t] + SumTaken(ts \ {t})
InFlight == SumTaken(Threads)
\* The rejections threads are about to add to the counter: a record rejected
\* and not yet counted, a meta-record rejected and its count not yet put back.
Uncounted ==
    Cardinality({t \in Threads : pc[t] \in {"inc", "push_restore", "drop_restore"}})

\* The relay is shut down for good: the Async is dropped and the worker ended.
ShutDown == async_st = "dropped" /\ WorkerEnded

\* C6: under DropAndReport the meta-record that a successful send placed in
\* the channel for the K records dropped before it is delivered to the drain:
\* one the worker has processed, with a threshold set, is in the drain.
C6_DropsReachSink ==
    inc_dropped =>
        \A i \in DOMAIN wlog :
            (IsMeta(wlog[i].msg) /\ LevelSetBy(DequeuedBefore(i)) # {})
                => wlog[i].delivered

\* C6, the part that holds: under DropAndReport every rejection is counted once: the
\* counter, the counts threads hold inside push_dropped (with the rejections
\* they are about to add) and the counts of the meta-records placed in the
\* channel add up to the number of rejected records and rejected meta-records,
\* so a meta-record carries all drops pending when it was built and none is
\* reported twice; the worker hands a meta-record to the drain exactly when it
\* passes the PID and level filters like any record.
C6_DropAccounting ==
    inc_dropped =>
        /\ dropped + InFlight + Uncounted + MetaSum(chanHist) = fullReal + fullMeta
        /\ \A k \in DOMAIN chanHist : IsMeta(chanHist[k]) => chanHist[k].count >= 1
        /\ \A i \in DOMAIN wlog :
              IsMeta(wlog[i].msg) => (wlog[i].delivered <=> PassesAt(i))
        /\ SinkMetaSum(sink) <= fullReal + fullMeta

\* C6, a case of the part that holds: a record was dropped, the next log call enqueued a meta-record
\* for it, the drain received that meta-record, and the counter started anew.
C6_Witness ==
    /\ inc_dropped
    /\ \E n \in DOMAIN sink : sink[n].tag = MetaTag /\ sink[n].count >= 1
    /\ fullMeta = 0 /\ dropped = 0 /\ InFlight = 0

\* C7: with the default builder options and no control message ever sent,
\* every record logged that the worker has processed reached the wrapped
\* drain, with its level, logger values and message as they were logged.
C7_DefaultDelivers ==
    (built = "build" /\ ~blocking /\ inc_dropped) =>
        \A i \in DOMAIN wlog :
            (IsRecord(wlog[i].msg) /\ ~IsMeta(wlog[i].msg)) =>
                /\ wlog[i].delivered
                /\ \E n \in DOMAIN sink :
                      /\ sink[n].src = wlog[i].msg.src
                      /\ sink[n].seq = wlog[i].msg.seq
                      /\ sink[n].level = wlog[i].msg.level
                      /\ sink[n].logger_values = logger[wlog[i].msg.src]

C9_PidFilterIff ==
    \A i \in DOMAIN wlog :
        (IsRecord(wlog[i].msg) /\ LevelSetBy(DequeuedBefore(i)) # {}) =>
            \A p \in wlog[i].msg.pid :
                wlog[i].delivered <=> PidEnabledBy(DequeuedBefore(i), p)

\* C9 amended: a record tagged with PID p is delivered if and only if
\* enable(p) was processed before it was dequeued with no disable(p) processed
\* after that enable, and a threshold was set by then that the record's level
\* is at least as severe as.
C9_PidFilter ==
    \A i \in DOMAIN wlog :
        IsRecord(wlog[i].msg) =>
            \A p \in wlog[i].msg.pid :
                wlog[i].delivered <=>
                    (PidEnabledBy(DequeuedBefore(i), p)
                        /\ LevelOk(wlog[i].msg, DequeuedBefore(i)))

\* C9 witness: a record with a PID that was enabled and then disabled was
\* processed under a threshold it passes, and was not delivered.
C9_Witness ==
    \E i \in DOMAIN wlog :
        /\ IsRecord(wlog[i].msg) /\ ~wlog[i].delivered
        /\ LevelOk(wlog[i].msg, DequeuedBefore(i))
        /\ \E p \in wlog[i].msg.pid :
              /\ \E k \in 1..(i - 1) : wlog[k].msg = EnablePID(p)
              /\ ~PidEnabledBy(DequeuedBefore(i), p)

\* C10: Async::log never returns AsyncError::Full.
C10_LogNeverFull ==
    \A p \in Producers : ret[p] \in {"None", "Ok", "Fatal"}

\* C10 witness: the core rejected a meta-record as Full and then the record
\* itself as Full, and the log call returned Ok.
C10_Witness ==
    \E p \in Producers :
        /\ pc[p] = "idle" /\ ret[p] = "Ok"
        /\ core_ret[p] = "Full" /\ fullMeta > 0 /\ fullReal > 0

\* Thread t returns from AsyncCore::send in this step: it was at one of the
\* calls of self.core.log and has left it; core_ret'[t] is what send returned.
CoreSendStep(t) ==
    /\ pc[t] \in {"push_send", "send", "drop_push_send"}
    /\ pc'[t] # pc[t]

\* C11: AsyncCore::send returns Full exactly when the relay is non-blocking
\* and the queue is at capacity (the worker alive), and returns Fatal whenever
\* the channel is closed because the worker has ended, in both send modes; a
\* closed channel is never reported as Full.
C11_SendErrors ==
    [][\A t \in Threads :
          CoreSendStep(t) =>
              /\ (core_ret'[t] = "Full")
                    <=> (~blocking /\ RxAlive /\ Len(queue) >= chan_size)
              /\ ~RxAlive => core_ret'[t] = "Fatal"]_vars

\* C12: once the worker has dequeued Finish and exited, every attempt to
\* enqueue a record, in blocking or non-blocking mode, is rejected by the
\* core (send does not return Ok) and the record is not placed in the queue.
C12_NoRecordAfterExit ==
    [][\A t \in Threads :
          (CoreSendStep(t) /\ pc[Worker] = "exited") =>
              /\ core_ret'[t] \in {"Full", "Fatal"}
              /\ queue' = queue
              /\ chanHist' = chanHist]_vars

\* C12 witness: the worker has exited and a send made after that was
\* rejected (Fatal is what a send returns only once the receiver is gone).
C12_Witness ==
    /\ pc[Worker] = "exited"
    /\ \E t \in Threads : core_ret[t] = "Fatal"

\* Producer p's Async::log gives up the record in this step without an error
\* for the caller: the core rejected it as Full, which log turns into Ok
\* (after counting it when inc_dropped is set).
DiscardStep(p) ==
    /\ pc[p] = "send" /\ pc'[p] \in {"inc", "idle"}
    /\ core_ret'[p] = "Full"

\* C13: a record passed to Async::log is not dropped as long as the channel
\* does not overflow: under every strategy the producer path discards a
\* record, and under DropAndReport counts it, only when the channel is at
\* capacity at the moment of the enqueue attempt.
C13_DropOnlyOnOverflow ==
    [][\A p \in Producers :
          DiscardStep(p) => Len(queue) >= chan_size]_vars

\* Thread t, which is not the worker, returns in this step from the drop of
\* the AsyncGuard or of the AsyncCore that held the JoinHandle.
DropReturnStep(t) ==
    /\ t # Worker
    /\ pc[t] \in {"drop_join", "gdrop_join"}
    /\ pc'[t] = Idle(t)

\* C14: the drop of the AsyncGuard (or, with no guard, of the AsyncCore) on a
\* thread other than the worker returns only after the worker has dequeued and
\* processed, in order, every message enqueued before the Finish and has
\* exited, whatever other references to the relay are still alive.
C14_DropWaitsForWorker ==
    [][\A t \in Threads :
          DropReturnStep(t) =>
              /\ pc[Worker] = "exited"
              /\ FirstFinish > 0
              /\ Len(wlog) = FirstFinish
              /\ \A k \in 1..FirstFinish :
                    /\ wlog[k].msg = chanHist[k]
                    /\ IsRecord(chanHist[k]) =>
                          (wlog[k].delivered <=>
                              (PidOk(chanHist[k], EnqueuedBefore(k))
                                  /\ LevelOk(chanHist[k], EnqueuedBefore(k))))]_vars

\* C14 witness: a producer is in the join of a drop, the Async or the
\* control handle is still alive, and the worker has exited after
\* handing a record enqueued before the Finish to the drain.
C14_Witness ==
    /\ \E p \in Producers : pc[p] \in {"gdrop_join", "drop_join"}
    /\ pc[Worker] = "exited"
    /\ async_st = "alive" \/ ctl_st = "held"
    /\ \E k \in 1..(FirstFinish - 1) : IsRecord(chanHist[k]) /\ wlog[k].delivered

\* The scenario of C15 has run to its end: capacity 1, DropAndReport, the
\* threshold set to Error by the one control message, then three log calls of
\* producer p2 (whose logger carries no PID): A was accepted, B was rejected
\* while the queue was full, and the third call, made with room in the queue,
\* enqueued the meta-record and then sent C; the worker has drained the queue.
\* (seqno counts p2's sends: A is 1, B is 2, the meta-record 3, C is 4.)
ScenarioABC ==
    /\ chan_size = 1 /\ inc_dropped /\ built = "build_with_channel"
    /\ async_st = "alive"
    /\ nctl = 1 /\ Len(chanHist) >= 1 /\ chanHist[1] = LogLevel(Error)
    /\ nlog = 3 /\ seqno["p1"] = 0 /\ seqno["p2"] = 4 /\ pc["p2"] = "idle"
    /\ fullMeta = 0
    /\ \E k \in DOMAIN chanHist : chanHist[k].src = "p2" /\ chanHist[k].seq = 1
    /\ \A k \in DOMAIN chanHist : ~(chanHist[k].src = "p2" /\ chanHist[k].seq = 2)
    /\ queue = <<>> /\ pc[Worker] = "recv" /\ Len(wlog) = Len(chanHist)

\* The drain's first two entries are A and then the meta-record reporting 1.
SinkStartsAMeta ==
    /\ Len(sink) >= 2
    /\ sink[1].src = "p2" /\ sink[1].seq = 1 /\ sink[1].tag = ""
    /\ sink[2].src = "p2" /\ sink[2].seq = 3
    /\ sink[2].tag = MetaTag /\ sink[2].count = 1 /\ sink[2].level = Error

MeetsFullQueue(p) ==
    /\ pc[p] = "send" /\ pc'[p] # "send"
    /\ RxAlive /\ Len(queue) >= chan_size

\* C16: what each overflow policy does when a real record meets a full
\* queue.  Drop: the record is discarded and the counter is left alone (it is
\* 0 for the life of the instance and no meta-record is ever produced).
\* DropAndReport: the record is discarded and the counter goes up by exactly
\* one.  Block: the producer waits (no send completes on a full queue) and no
\* record is ever rejected as Full.
C16_OverflowPolicies ==
    [][/\ strategy = "Drop" =>
            /\ dropped' = 0
            /\ \A k \in DOMAIN chanHist' : ~IsMeta(chanHist'[k])
            /\ \A p \in Producers :
                  MeetsFullQueue(p) =>
                      /\ queue' = queue /\ chanHist' = chanHist
                      /\ pc'[p] = "idle" /\ ret'[p] = "Ok"
       /\ strategy = "DropAndReport" =>
            \A p \in Producers :
                /\ MeetsFullQueue(p) =>
                      /\ queue' = queue /\ chanHist' = chanHist
                      /\ pc'[p] = "inc" /\ dropped' = dropped
                /\ (pc[p] = "inc" /\ pc'[p] # "inc") =>
                      /\ dropped' = dropped + 1
                      /\ pc'[p] = "idle" /\ ret'[p] = "Ok"
       /\ strategy = "Block" =>
            /\ \A p \in Producers : ~MeetsFullQueue(p)
            /\ fullReal' = 0 /\ fullMeta' = 0 /\ dropped' = 0
            /\ \A t \in Threads : core_ret'[t] # "Full"]_vars

\* C16 witness: under DropAndReport one real record has met a full queue
\* (the worker alive, no shutdown begun) and the counter stands at one.
C16_Witness ==
    /\ strategy = "DropAndReport"
    /\ fullReal = 1 /\ fullMeta = 0 /\ dropped = 1
    /\ \A p \in Producers : pc[p] = "idle"
    /\ RxAlive /\ \A k \in DOMAIN chanHist : chanHist[k] # Finish

\* The control operations that returned Ok are exactly those whose message
\* was placed in the channel.
ControlOkIffEnqueued ==
    /\ Len(ctl_ret) = nctl
    /\ Cardinality({i \in DOMAIN ctl_ret : ctl_ret[i] = "Ok"})
          = Cardinality({k \in DOMAIN chanHist : IsControl(chanHist[k])})

\* C17 as stated: a control operation (enable, disable, log_level) that
\* returns success has enqueued its message and the worker applies it: none
\* returned success for a message the worker never applies.  (Once the worker
\* has ended, what it has not dequeued it will never apply.)
C17_ControlDeliveredOrFails ==
    /\ ControlOkIffEnqueued
    /\ WorkerEnded =>
          \A k \in DOMAIN chanHist :
              IsControl(chanHist[k]) => (k <= Len(wlog) /\ wlog[k].msg = chanHist[k])

\* C17 amended: a control operation returns success exactly when its message
\* was enqueued, and failure only when the channel is closed (the worker has
\* ended); the worker applies every control message it dequeues, and when it
\* has exited it has dequeued every control message enqueued ahead of the
\* Finish; a control message enqueued behind the Finish is never applied.
C17_ControlEnqueuedOrFails ==
    /\ ControlOkIffEnqueued
    /\ (\E i \in DOMAIN ctl_ret : ctl_ret[i] = "Err") => WorkerEnded
    /\ enabled_pids = {p \in Pids : PidEnabledBy(Dequeued, p)}
    /\ emit_log_level = LevelSetBy(Dequeued)
    /\ pc[Worker] = "exited" =>
          /\ \A k \in 1..(FirstFinish - 1) :
                IsControl(chanHist[k]) => wlog[k].msg = chanHist[k]
          /\ Len(wlog) = FirstFinish

\* C17 witness: one control operation returned success and the worker applied
\* its message; a later one, made after the worker exited, returned failure.
C17_Witness ==
    /\ pc[Worker] = "exited"
    /\ \E i \in DOMAIN wlog : IsControl(wlog[i].msg)
    /\ enabled_pids # {} \/ emit_log_level # None
    /\ \E i, j \in DOMAIN ctl_ret : i < j /\ ctl_ret[i] = "Ok" /\ ctl_ret[j] = "Err"

HandOffStep(t) ==
    pc[t] \in {"push_send", "drop_push_send"} /\ pc'[t] # pc[t]
RestoreStep(t) ==
    pc[t] \in {"push_restore", "drop_restore"} /\ pc'[t] # pc[t]

\* The meta-record thread t hands off carries the count t took.
HandsOffTaken(t) ==
    /\ Len(chanHist') = Len(chanHist) + 1
    /\ IsMeta(chanHist'[Len(chanHist')])
    /\ chanHist'[Len(chanHist')].count = taken[t]
    /\ chanHist'[Len(chanHist')].src = t

\* A failed hand-off is followed by the restore: the count taken is kept for it.
GoesToRestore(t) ==
    /\ pc'[t] \in {"push_restore", "drop_restore"}
    /\ taken'[t] = taken[t] /\ chanHist' = chanHist /\ dropped' = dropped

\* C19 as stated: the drop counter is reset to zero only after the
\* meta-record has been handed to the queue (a step that takes a non-zero
\* counter to zero is a successful hand-off), and whenever the hand-off fails
\* the pending count is put back, increased by one.
C19_ResetOnlyAfterHandOff ==
    [][/\ (dropped > 0 /\ dropped' = 0) =>
            \E t \in Threads : HandOffStep(t) /\ HandsOffTaken(t)
       /\ \A t \in Threads :
            /\ (HandOffStep(t) /\ core_ret'[t] # "Ok") => GoesToRestore(t)
            /\ RestoreStep(t) => dropped' = dropped + taken[t] + 1]_vars

\* C19 amended: push_dropped takes the pending count out of the counter with
\* a swap to zero before it attempts the hand-off, and the calling thread
\* holds it meanwhile; a successful hand-off enqueues a meta-record carrying
\* exactly that count; a hand-off fails only with Full (the meta-record is
\* sent only in non-blocking mode), and then the count held is added back to
\* the counter, increased by one.
C19_PendingCountKept ==
    [][/\ (dropped > 0 /\ dropped' = 0) =>
            \E t \in Threads :
                /\ pc[t] = Idle(t)
                /\ pc'[t] \in {"push_send", "drop_push_send"}
                /\ taken[t] = 0 /\ taken'[t] = dropped
       /\ \A t \in Threads :
            /\ HandOffStep(t) =>
                  /\ ~blocking /\ taken[t] > 0
                  /\ IF core_ret'[t] = "Ok"
                     THEN HandsOffTaken(t) /\ taken'[t] = 0 /\ dropped' = dropped
                     ELSE core_ret'[t] = "Full" /\ GoesToRestore(t)
            /\ RestoreStep(t) =>
                  /\ dropped' = dropped + taken[t] + 1
                  /\ taken'[t] = 0]_vars

\* C19 witness: one record was dropped, the hand-off of its meta-record failed
\* once, and the counter holds the count put back, increased by one.
C19_Witness ==
    /\ fullReal = 1 /\ fullMeta = 1 /\ dropped = 2 /\ InFlight = 0
    /\ \A k \in DOMAIN chanHist : ~IsMeta(chanHist[k])

\* C20: the enqueue of the dropped-count meta-record is never a blocking one,
\* whatever the overflow strategy: a thread inside it is in non-blocking mode
\* and can always complete the call at once, however full the queue is; under
\* Block no count is ever pending, so the enqueue is not attempted at all.
C20_MetaSendNeverBlocks ==
    /\ \A t \in Threads :
          /\ pc[t] = "push_send" => (~blocking /\ ENABLED PushSend(t))
          /\ pc[t] = "drop_push_send" => (~blocking /\ ENABLED DropPushSend(t))
    /\ strategy = "Block" =>
          /\ dropped = 0
          /\ \A t \in Threads :
                taken[t] = 0 /\ pc[t] \notin {"push_send", "drop_push_send"}

\* C20 witness: a producer is inside the enqueue of the meta-record while the
\* queue is at capacity and the worker alive (a blocking send would wait).
C20_Witness ==
    \E p \in Producers :
        /\ pc[p] = "push_send"
        /\ RxAlive /\ Len(queue) >= chan_size

\* The meta-record of Drop for Async: it carries the empty logger values o!(),
\* the producers' meta-records those of their loggers.
IsFinalMeta(m) == IsMeta(m) /\ m.logger_values = <<>>
FinalMetas == {k \in DOMAIN chanHist : IsFinalMeta(chanHist[k])}

\* Drop for Async: at most one final meta-record is ever enqueued; while it is
\* being attempted the instance has a count in hand and has sent no Finish.
FinalAttemptOnce ==
    /\ Cardinality(FinalMetas) <= 1
    /\ \A k \in FinalMetas : chanHist[k].count >= 1
    /\ \A t \in Threads :
          pc[t] = "drop_push_send" =>
              /\ taken[t] > 0 /\ async_st = "dropping"
              /\ join # "taken" \/ built = "build_with_guard"

\* The drop of the Async begins in this step with a non-zero counter: the
\* dropping thread goes to the one attempt with the whole count in hand.
FinalAttemptStep ==
    (async_st = "alive" /\ async_st' # "alive" /\ dropped > 0) =>
        \E t \in Threads :
            /\ pc'[t] = "drop_push_send" /\ taken'[t] = dropped
            /\ dropped' = 0

\* C21 as stated: an Async dropped with a counter N > 0 makes exactly one
\* attempt to enqueue a meta-record reporting N, before it enqueues Finish,
\* so a final meta-record that was enqueued has been processed by the worker
\* when the worker has exited.
C21_FinalMetaProcessed ==
    [][/\ FinalAttemptStep
       /\ \A t \in Threads :
            (pc[t] = "drop_push_send" /\ pc'[t] # pc[t] /\ core_ret'[t] = "Ok")
                => HandsOffTaken(t)
       /\ FinalAttemptOnce'
       /\ (pc[Worker] = "exited")' =>
            \A k \in FinalMetas' :
                k <= Len(wlog') /\ wlog'[k].msg = chanHist'[k]]_vars

\* C21 amended: the one attempt reports N and comes before the Finish this
\* instance enqueues; built without a guard, an enqueued final meta-record is
\* ahead of the only Finish and has been processed when the worker has
\* exited; built with a guard, it has been processed exactly when it was
\* enqueued ahead of the guard's Finish, and is left in the queue otherwise.
C21_FinalMetaBeforeOwnFinish ==
    [][/\ FinalAttemptStep
       /\ \A t \in Threads :
            (pc[t] = "drop_push_send" /\ pc'[t] # pc[t] /\ core_ret'[t] = "Ok")
                => HandsOffTaken(t)
       /\ FinalAttemptOnce'
       /\ (built # "build_with_guard" /\ FirstFinish > 0)' =>
            \A k \in FinalMetas' : k < FirstFinish'
       /\ (pc[Worker] = "exited")' =>
            \A k \in FinalMetas' :
                IF k < FirstFinish'
                THEN wlog'[k].msg = chanHist'[k]
                ELSE k > Len(wlog')]_vars

\* C21 witness: built without a guard, the Async was dropped with a count
\* pending, its final meta-record was enqueued, and the worker has processed
\* it and exited.
C21_Witness ==
    /\ built # "build_with_guard"
    /\ pc[Worker] = "exited"
    /\ \E k \in FinalMetas : k < FirstFinish /\ wlog[k].msg = chanHist[k]

\* The Finish messages enqueued so far, and the threads inside the shutdown
\* part (send of Finish, join) of the core's drop and of the guard's drop.
Finishes == {k \in DOMAIN chanHist : chanHist[k] = Finish}
InCoreShutdown == {t \in Threads : pc[t] \in {"drop_finish", "drop_join"}}
InGuardShutdown == {t \in Threads : pc[t] \in {"gdrop_finish", "gdrop_join"}}

\* C22: at most one Finish is enqueued per relay instance and at most one
\* party joins the worker.  Built with a guard, the drop of the AsyncCore
\* sends no Finish and joins nothing, and the guard's drop does, once; built
\* without a guard, the drop of the AsyncCore does, exactly once.
C22_OneFinishOneJoin ==
    /\ Cardinality(Finishes) <= 1
    /\ Cardinality(InCoreShutdown \cup InGuardShutdown) <= 1
    /\ built = "build_with_guard" =>
          /\ InCoreShutdown = {}
          /\ Finishes # {} => guard_st \in {"dropping", "dropped"}
          /\ guard_st = "held" => (Finishes = {} /\ join = "guard")
          /\ guard_st = "dropped" => (Cardinality(Finishes) = 1 /\ join = "taken")
    /\ built # "build_with_guard" =>
          /\ InGuardShutdown = {} /\ guard_st = "none"
          /\ Finishes # {} => async_st \in {"dropping", "dropped"}
          /\ async_st = "alive" => (Finishes = {} /\ join = "core")
          /\ async_st = "dropped" => (Cardinality(Finishes) = 1 /\ join = "taken")

\* C22 witness: built with a guard, the Async and its core have been dropped
\* while the guard is held: no Finish was sent and the worker runs on.
C22_Witness ==
    /\ built = "build_with_guard"
    /\ async_st = "dropped" /\ guard_st = "held"
    /\ Finishes = {} /\ pc[Worker] = "recv"
    /\ Len(wlog) > 0

\* C23: the worker loop stops only by dequeuing Finish: in every lifecycle a
\* Finish is enqueued before the last sender is released, so the worker never
\* finds the channel empty with every sender gone and its recv never fails.
C23_StopsOnlyOnFinish ==
    /\ pc[Worker] # "panicked"
    /\ ~SendersAlive => Finishes # {}
    /\ (pc[Worker] = "recv" /\ queue = <<>>) => SendersAlive
    /\ pc[Worker] = "exited" <=>
          (wlog # <<>> /\ wlog[Len(wlog)].msg = Finish)

\* C23 witness: every sender (the Async, the control handle) has been
\* released and the worker has exited by dequeuing the Finish.
C23_Witness ==
    /\ ~SendersAlive
    /\ ctl_st = "dropped"
    /\ pc[Worker] = "exited"
    /\ wlog[Len(wlog)].msg = Finish /\ Len(wlog) > 1

NoneInPushDropped ==
    \A t \in Threads :
        pc[t] \notin {"push_send", "push_restore", "drop_push_send", "drop_restore"}

\* C25 as stated: under DropAndReport, whenever no producer is between the
\* swap and the restore of push_dropped, the counter plus the counts of the
\* meta-records enqueued so far equals the number of records rejected as Full
\* plus the number of meta-records rejected as Full.
C25_ConservationAsStated ==
    (inc_dropped /\ NoneInPushDropped) =>
        dropped + MetaSum(chanHist) = fullReal + fullMeta

\* C25 amended: the same equation, whenever in addition no producer is
\* between the rejection of its record and the fetch_add(1) that counts it.
C25_Conservation ==
    (/\ inc_dropped /\ NoneInPushDropped
     /\ \A p \in Producers : pc[p] # "inc") =>
        dropped + MetaSum(chanHist) = fullReal + fullMeta

\* C25 witness: both producers have logged, records and a meta-record were
\* rejected, a later meta-record was enqueued, and every thread is at rest.
C25_Witness ==
    /\ inc_dropped /\ NoneInPushDropped
    /\ \A p \in Producers : pc[p] = "idle" /\ seqno[p] > 0
    /\ fullReal >= 1 /\ fullMeta >= 1 /\ MetaSum(chanHist) >= 1

\* The messages the worker has dequeued from ahead of the first Finish.
AheadOfFinish == SubSeq(chanHist, 1, IF Len(wlog) < FirstFinish
                                      THEN Len(wlog) ELSE FirstFinish)

\* C26: the worker never processes a message that is behind a Finish in
\* channel order: a record enqueued behind it, though its send returned Ok,
\* never reaches the drain, and a control message enqueued behind it never
\* changes the worker's state.
C26_NothingBehindFinish ==
    FirstFinish > 0 =>
        /\ Len(wlog) <= FirstFinish
        /\ \A n \in DOMAIN sink :
              \E k \in 1..(FirstFinish - 1) :
                  IsRecord(chanHist[k]) /\ sink[n] = LogTo(chanHist[k])
        /\ enabled_pids = {p \in Pids : PidEnabledBy(AheadOfFinish, p)}
        /\ emit_log_level = LevelSetBy(AheadOfFinish)
        /\ pc[Worker] = "exited" =>
              \A k \in (FirstFinish + 1)..Len(chanHist) :
                  \E n \in DOMAIN queue : queue[n] = chanHist[k]

\* C26 witness: the worker has exited, and a message whose send returned Ok
\* behind the Finish is still in the queue.
C26_Witness ==
    /\ pc[Worker] = "exited"
    /\ \E k \in (FirstFinish + 1)..Len(chanHist) :
          IsRecord(chanHist[k]) \/ IsControl(chanHist[k])

====
